---- MODULE Spec2Model ----
(***************************************************************************)
(* Model of huggingface_hub/inference_api.py: the InferenceApi client.     *)
(* Construction (__init__) resolves the authorization header, looks the    *)
(* model up on the hub, resolves the task and builds the URL and options;  *)
(* invocation (__call__) builds the payload and issues one POST.           *)
(*                                                                         *)
(* Python values are tagged records so that None, booleans, strings and    *)
(* mappings stay distinct and truthiness is computed as Python does.       *)
(***************************************************************************)
EXTENDS Integers, Sequences, FiniteSets, TLC

VARIABLES
    hfToken,     \* content of the local credential store read by HfFolder.get_token()
    args,        \* arguments the constructor was called with (None before the call)
    pc,          \* "start" | "ready" (instance exists) | "raised" (constructor raised)
    raised,      \* exception that ended the constructor, "none" otherwise
    self,        \* the instance: None, or [headers, task, api_url, options]
    modelInfo,   \* what HfApi().model_info did: None (not called), LookupFailed, or ModelInfo(tag)
    lookup,      \* arguments of the model_info call: None, or [repo_id, token]
    tokenQueries,\* number of HfFolder.get_token() calls
    warnings,    \* number of logger.warning calls
    calls,       \* number of __call__ invocations
    posts,       \* number of requests.post calls
    lastPost,    \* arguments of the last requests.post: None, or [url, headers, json]
    lastCall,    \* arguments of the last __call__: None, or [inputs, params]
    response,    \* what the transport did for the last POST (None before any)
    result       \* how the last __call__ ended: None, or [raised, value]

vars == <<hfToken, args, pc, raised, self, modelInfo, lookup, tokenQueries,
          warnings, calls, posts, lastPost, lastCall, response, result>>

(* ------------------------------ bounds --------------------------------- *)
MaxCalls == 2

(* --------------------------- Python values ----------------------------- *)
None == [t |-> "None"]
Omitted == [t |-> "omitted"]
Str(s) == [t |-> "str", s |-> s]
Bool(b) == [t |-> "bool", b |-> b]
Dict(d) == [t |-> "dict", d |-> d]
List(l) == [t |-> "list", l |-> l]

isinstance_str(v) == v.t = "str"

\* Python truth value of the kinds of value the client tests with `if x` / `not x`.
Truthy(v) ==
    CASE v.t = "None" -> FALSE
      [] v.t = "bool" -> v.b
      [] v.t = "str"  -> v.s # ""
      [] v.t = "dict" -> DOMAIN v.d # {}
      [] v.t = "list" -> Len(v.l) > 0
      [] OTHER        -> TRUE

\* A parameter with a default: the default replaces an omitted argument.
Arg(v, default) == IF v = Omitted THEN default ELSE v

(* ----------------------------- constants ------------------------------- *)
ENDPOINT == "https://api-inference.huggingface.co/pipeline"

ALL_TASKS ==
    { "text-classification", "token-classification", "table-question-answering",
      "question-answering", "zero-shot-classification", "translation",
      "summarization", "conversational", "feature-extraction", "text-generation",
      "text2text-generation", "fill-mask", "sentence-similarity",
      "text-to-speech", "automatic-speech-recognition", "audio-source-separation",
      "voice-activity-detection",
      "image-classification", "object-detection", "image-segmentation" }

(* ------------------------- enumerated inputs --------------------------- *)
RepoIds == {"bert-base-uncased", "org/private-model"}

\* explicit task arguments: omitted, None, empty, two supported, one unsupported
TaskArgs == {Omitted, None, Str(""), Str("fill-mask"), Str("translation"), Str("text-to-image")}

\* use_auth_token arguments: omitted, None, booleans, strings (one empty)
AuthArgs == {Omitted, None, Bool(FALSE), Bool(TRUE), Str("hf_explicit"), Str("")}

GpuArgs == {Omitted, Bool(FALSE), Bool(TRUE)}

\* contents of the credential store
StoredTokens == {None, Str("hf_stored")}

\* pipeline_tag values the hub can report
PipelineTags == {None, Str(""), Str("fill-mask"), Str("text-to-image")}

InputValues == {Str("The goal of life is [MASK]."), Dict([question |-> Str("q"), context |-> Str("c")])}

ParamValues == {Omitted, None, Dict(<<>>), Dict([candidate_labels |-> List(<<Str("refund")>>)])}

\* what requests.post(...) followed by response.json() can do
JsonValues == { List(<<Dict([sequence |-> Str("the goal of life is life.")])>>),
                Dict([error |-> Str("Model is currently loading")]) }
JSONDecodeError == [t |-> "JSONDecodeError"]
StatusCodes == {200, 503}
Responses == [kind : {"response"}, status_code : StatusCodes, json : JsonValues \cup {JSONDecodeError}]
PostOutcomes == {[kind |-> "ConnectionError"]} \cup Responses

\* what HfApi().model_info(...) can do: raise, or return a ModelInfo
LookupFailed == [t |-> "HTTPError"]
ModelInfo(tag) == [t |-> "ModelInfo", pipeline_tag |-> tag]
LookupOutcomes == {LookupFailed} \cup {ModelInfo(tag) : tag \in PipelineTags}

(* --------------------------- __init__ steps ---------------------------- *)
Bearer(tok) == "Bearer " \o tok.s

\* mutant of ResolveAuth: a missing stored token falls through to anonymous access
ResolveAuth_Anonymous(use_auth_token, stored) ==
    IF isinstance_str(use_auth_token)
    THEN [raised |-> "none", headers |-> [authorization |-> Bearer(use_auth_token)],
          token |-> use_auth_token, queried |-> 0]
    ELSE IF Truthy(use_auth_token) /\ stored # None
    THEN [raised |-> "none", headers |-> [authorization |-> Bearer(stored)],
          token |-> stored, queried |-> 1]
    ELSE [raised |-> "none", headers |-> <<>>, token |-> None,
          queried |-> IF Truthy(use_auth_token) THEN 1 ELSE 0]

\* mutant of ResolveAuth: the store is consulted unless use_auth_token is a string
ResolveAuth_StoreFallback(use_auth_token, stored) ==
    IF isinstance_str(use_auth_token)
    THEN [raised |-> "none", headers |-> [authorization |-> Bearer(use_auth_token)],
          token |-> use_auth_token, queried |-> 0]
    ELSE IF stored = None
    THEN IF Truthy(use_auth_token)
         THEN [raised |-> "EnvironmentError", headers |-> <<>>, token |-> None, queried |-> 1]
         ELSE [raised |-> "none", headers |-> <<>>, token |-> None, queried |-> 1]
    ELSE [raised |-> "none", headers |-> [authorization |-> Bearer(stored)],
          token |-> stored, queried |-> 1]

\* lines 87-99: headers and local token from use_auth_token and the store
ResolveAuth(use_auth_token, stored) ==
    IF isinstance_str(use_auth_token)
    THEN [raised |-> "none", headers |-> [authorization |-> Bearer(use_auth_token)],
          token |-> use_auth_token, queried |-> 0]
    ELSE IF Truthy(use_auth_token)
    THEN IF stored = None
         THEN [raised |-> "EnvironmentError", headers |-> <<>>, token |-> None, queried |-> 1]
         ELSE [raised |-> "none", headers |-> [authorization |-> Bearer(stored)],
               token |-> stored, queried |-> 1]
    ELSE [raised |-> "none", headers |-> <<>>, token |-> None, queried |-> 0]

\* mutant of LookupToken: the resolved token is passed on to the lookup
LookupToken_Kept(token) == token

\* line 100: the local token is reset before the lookup
LookupToken(token) == None

\* line 110: membership of a (string) task in ALL_TASKS
InAllTasks(task) == task.t = "str" /\ task.s \in ALL_TASKS

\* mutant of ResolveTask: the override is not validated against ALL_TASKS
ResolveTask_NoValidation(task, pipeline_tag) ==
    IF ~Truthy(pipeline_tag) /\ ~Truthy(task)
    THEN [raised |-> "ValueError", task |-> None, warned |-> 0]
    ELSE IF Truthy(task) /\ task # pipeline_tag
    THEN [raised |-> "none", task |-> task, warned |-> 1]
    ELSE [raised |-> "none", task |-> pipeline_tag, warned |-> 0]

\* mutant of ResolveTask: a declared task wins over a valid override
ResolveTask_DeclaredWins(task, pipeline_tag) ==
    IF ~Truthy(pipeline_tag) /\ ~Truthy(task)
    THEN [raised |-> "ValueError", task |-> None, warned |-> 0]
    ELSE IF Truthy(task) /\ task # pipeline_tag
    THEN IF ~InAllTasks(task)
         THEN [raised |-> "ValueError", task |-> None, warned |-> 0]
         ELSE [raised |-> "none", task |-> IF Truthy(pipeline_tag) THEN pipeline_tag ELSE task,
               warned |-> 1]
    ELSE [raised |-> "none", task |-> pipeline_tag, warned |-> 0]

\* mutant of ResolveTask: the unresolvable-task check is missing
ResolveTask_NoUnresolvedCheck(task, pipeline_tag) ==
    IF Truthy(task) /\ task # pipeline_tag
    THEN IF ~InAllTasks(task)
         THEN [raised |-> "ValueError", task |-> None, warned |-> 0]
         ELSE [raised |-> "none", task |-> task, warned |-> 1]
    ELSE [raised |-> "none", task |-> pipeline_tag, warned |-> 0]

\* lines 104-118: task resolution from the task argument and the pipeline tag
ResolveTask(task, pipeline_tag) ==
    IF ~Truthy(pipeline_tag) /\ ~Truthy(task)
    THEN [raised |-> "ValueError", task |-> None, warned |-> 0]
    ELSE IF Truthy(task) /\ task # pipeline_tag
    THEN IF ~InAllTasks(task)
         THEN [raised |-> "ValueError", task |-> None, warned |-> 0]
         ELSE [raised |-> "none", task |-> task, warned |-> 1]
    ELSE [raised |-> "none", task |-> pipeline_tag, warned |-> 0]

\* f-string formatting of a task value (line 121): str(None) is "None"
Format(v) == IF v.t = "str" THEN v.s ELSE "None"

\* mutant of ApiUrl: model identifier and task segments swapped
ApiUrl_Swapped(task, repoId) == ENDPOINT \o "/" \o repoId \o "/" \o Format(task)

\* line 121
ApiUrl(task, repoId) == ENDPOINT \o "/" \o Format(task) \o "/" \o repoId

\* line 122
Options(gpu) == [wait_for_model |-> TRUE, use_gpu |-> gpu.b]

\* the constructor's arguments after defaults (lines 68-74)
InitArgs(repoId, task, use_auth_token, gpu) ==
    [repoId |-> repoId, task |-> Arg(task, None),
     use_auth_token |-> Arg(use_auth_token, None), gpu |-> Arg(gpu, Bool(FALSE))]

\* The constructor, lines 87-124.  info is what model_info does if it is called.
__init__(repoId, task, use_auth_token, gpu, info) ==
    LET a    == InitArgs(repoId, task, use_auth_token, gpu)
        auth == ResolveAuth(a.use_auth_token, hfToken)
        rt   == ResolveTask(a.task, info.pipeline_tag)
    IN  /\ pc = "start"
        /\ pc' = IF auth.raised = "none" /\ info # LookupFailed /\ rt.raised = "none"
                 THEN "ready" ELSE "raised"
        /\ args' = [repoId |-> repoId, task |-> task, use_auth_token |-> use_auth_token, gpu |-> gpu]
        /\ tokenQueries' = tokenQueries + auth.queried
        /\ IF auth.raised # "none"
           THEN /\ raised' = auth.raised
                /\ self' = None
                /\ UNCHANGED <<modelInfo, lookup, warnings>>
           ELSE /\ lookup' = [repo_id |-> repoId, token |-> LookupToken(auth.token)]
                /\ modelInfo' = info
                /\ IF info = LookupFailed
                   THEN /\ raised' = "HTTPError"
                        /\ self' = None
                        /\ UNCHANGED warnings
                   ELSE /\ raised' = rt.raised
                        /\ warnings' = warnings + rt.warned
                        /\ self' = IF rt.raised # "none" THEN None
                                   ELSE [headers |-> auth.headers,
                                         task    |-> rt.task,
                                         api_url |-> ApiUrl(rt.task, repoId),
                                         options |-> Options(a.gpu)]
        /\ UNCHANGED <<hfToken, calls, posts, lastPost, lastCall, response, result>>

(* --------------------------- __call__ steps ---------------------------- *)
\* mutant of Payload: the parameters key is always added
Payload_Always(inputs, params, options) ==
    [inputs |-> inputs, options |-> options, parameters |-> params]

\* lines 131-137
Payload(inputs, params, options) ==
    IF Truthy(params)
    THEN [inputs |-> inputs, options |-> options, parameters |-> params]
    ELSE [inputs |-> inputs, options |-> options]

\* line 138: number of POSTs issued for one invocation
PostsPerCall(outcome) == 1

\* mutant of CallResult: an HTTP error status is turned into an exception
CallResult_RaiseForStatus(outcome) ==
    IF outcome.kind = "ConnectionError"
    THEN [raised |-> "ConnectionError", value |-> None]
    ELSE IF outcome.status_code >= 400
    THEN [raised |-> "HTTPError", value |-> None]
    ELSE IF outcome.json = JSONDecodeError
    THEN [raised |-> "JSONDecodeError", value |-> None]
    ELSE [raised |-> "none", value |-> outcome.json]

\* lines 138-139: how the invocation ends given what the transport did
CallResult(outcome) ==
    IF outcome.kind = "ConnectionError"
    THEN [raised |-> "ConnectionError", value |-> None]
    ELSE IF outcome.json = JSONDecodeError
    THEN [raised |-> "JSONDecodeError", value |-> None]
    ELSE [raised |-> "none", value |-> outcome.json]

\* mutant of SelfAfterCall: the call's parameters are merged into the shared options
SelfAfterCall_Merge(s, inputs, params) ==
    IF Truthy(Arg(params, None))
    THEN [s EXCEPT !.options = [wait_for_model |-> FALSE, use_gpu |-> s.options.use_gpu]]
    ELSE s

\* the instance after an invocation: __call__ assigns no attribute
SelfAfterCall(s, inputs, params) == s

\* The call operator, lines 126-139.
__call__(inputs, params, outcome) ==
    /\ pc = "ready"
    /\ calls < MaxCalls
    /\ calls' = calls + 1
    /\ lastCall' = [inputs |-> inputs, params |-> params]
    /\ lastPost' = [url |-> self.api_url, headers |-> self.headers,
                    json |-> Payload(inputs, Arg(params, None), self.options)]
    /\ posts' = posts + PostsPerCall(outcome)
    /\ response' = outcome
    /\ result' = CallResult(outcome)
    /\ self' = SelfAfterCall(self, inputs, params)
    /\ UNCHANGED <<hfToken, args, pc, raised, modelInfo, lookup, tokenQueries, warnings>>

(* --------------------------- specification ----------------------------- *)
Init ==
    /\ hfToken \in StoredTokens
    /\ args = None
    /\ pc = "start"
    /\ raised = "none"
    /\ self = None
    /\ modelInfo = None
    /\ lookup = None
    /\ tokenQueries = 0
    /\ warnings = 0
    /\ calls = 0
    /\ posts = 0
    /\ lastPost = None
    /\ lastCall = None
    /\ response = None
    /\ result = None

Construct ==
    \E repoId \in RepoIds, task \in TaskArgs, use_auth_token \in AuthArgs,
       gpu \in GpuArgs, info \in LookupOutcomes :
        __init__(repoId, task, use_auth_token, gpu, info)

Invoke ==
    \E inputs \in InputValues, params \in ParamValues, outcome \in PostOutcomes :
        __call__(inputs, params, outcome)

Next == Construct \/ Invoke

Spec == Init /\ [][Next]_vars

(* ------------------------------ claims --------------------------------- *)
\* the constructor's arguments with defaults applied, as __init__ sees them
TaskArg == Arg(args.task, None)
AuthArg == Arg(args.use_auth_token, None)
GpuArg  == Arg(args.gpu, Bool(FALSE))
LookupReturned == modelInfo.t = "ModelInfo"
DeclaredTask == modelInfo.pipeline_tag
UrlOf(taskName) == ENDPOINT \o "/" \o taskName \o "/" \o args.repoId

\* C1 (as stated): whenever the lookup returned, a non-empty explicit task outside
\* ALL_TASKS makes construction fail with ValueError, whatever the declared task is,
\* the declared task being equal to the explicit one included.
C1_Original ==
    (LookupReturned /\ Truthy(TaskArg) /\ ~InAllTasks(TaskArg)) => raised = "ValueError"

\* C1 (amended): once the lookup has returned, a non-empty explicit task outside
\* ALL_TASKS fails with ValueError exactly when it differs from the declared task
\* (absent and empty declared tasks included); when it equals the declared task
\* construction succeeds and resolves to that task without a warning.
C1_InvalidTaskRejectedWhenDifferent ==
    (LookupReturned /\ Truthy(TaskArg) /\ ~InAllTasks(TaskArg)) =>
        IF TaskArg # DeclaredTask
        THEN raised = "ValueError" /\ pc = "raised" /\ self = None
        ELSE raised = "none" /\ pc = "ready" /\ self.task = TaskArg /\ warnings = 0

C1_Witness ==
    /\ pc = "raised" /\ raised = "ValueError"
    /\ TaskArg = Str("text-to-image")
    /\ LookupReturned /\ DeclaredTask = Str("fill-mask")

\* C2: use_auth_token=True with an empty credential store ends the constructor with
\* EnvironmentError before any outbound call: no lookup, no POST, no instance.
C2_MissingTokenFailsBeforeAnyCall ==
    (args # None /\ AuthArg = Bool(TRUE) /\ hfToken = None) =>
        /\ pc = "raised" /\ raised = "EnvironmentError"
        /\ self = None
        /\ lookup = None /\ modelInfo = None
        /\ posts = 0 /\ lastPost = None /\ calls = 0

C2_Witness ==
    args # None /\ AuthArg = Bool(TRUE) /\ hfToken = None /\ raised = "EnvironmentError"

\* C3: when the lookup returned a non-empty declared task and no task argument was
\* given, construction succeeds, the resolved task is the declared task and the URL
\* is ENDPOINT "/" declared task "/" model identifier.
C3_DeclaredTaskUsed ==
    (LookupReturned /\ Truthy(DeclaredTask) /\ TaskArg = None) =>
        /\ pc = "ready" /\ raised = "none"
        /\ self.task = DeclaredTask
        /\ self.api_url = UrlOf(DeclaredTask.s)

C3_Witness ==
    /\ pc = "ready" /\ args.task = Omitted
    /\ LookupReturned /\ DeclaredTask = Str("fill-mask")
    /\ self.api_url = "https://api-inference.huggingface.co/pipeline/fill-mask/bert-base-uncased"

\* C4: when the lookup returned, an explicit task in ALL_TASKS that differs from the
\* declared task (absent included) never raises: one warning is logged and the
\* resolved task and the URL's task segment are the explicit task.
C4_ValidOverride ==
    (LookupReturned /\ InAllTasks(TaskArg) /\ TaskArg # DeclaredTask) =>
        /\ pc = "ready" /\ raised = "none"
        /\ warnings = 1
        /\ self.task = TaskArg
        /\ self.api_url = UrlOf(TaskArg.s)

C4_Witness ==
    /\ pc = "ready" /\ warnings = 1
    /\ TaskArg = Str("translation") /\ LookupReturned /\ DeclaredTask = Str("fill-mask")
    /\ self.task = Str("translation")

\* C5: when the lookup returned no declared task and no task argument was given,
\* construction fails with ValueError and no instance results.
C5_UnresolvableTask ==
    (LookupReturned /\ DeclaredTask = None /\ TaskArg = None) =>
        /\ pc = "raised" /\ raised = "ValueError"
        /\ self = None

C5_Witness ==
    /\ raised = "ValueError" /\ args.task = Omitted
    /\ LookupReturned /\ DeclaredTask = None

C7_ResolvedStateFrozen ==
    [][pc = "ready" =>
        /\ pc' = "ready" /\ self' = self /\ args' = args
        /\ lastPost' # None =>
              /\ lastPost'.url = self.api_url
              /\ lastPost'.headers = self.headers
              /\ lastPost'.json.options = self.options]_vars

C7_Witness ==
    /\ pc = "ready" /\ calls >= 2
    /\ result.raised = "ConnectionError"
    /\ lastCall.params.t = "dict" /\ Truthy(lastCall.params)

\* C8: an invocation issues exactly one POST and no lookup; if the transport returns
\* a decodable body it is returned unchanged whatever the status code, and a
\* transport failure is raised to the caller without a second POST.
C8_OnePostVerbatimResult ==
    [][calls' = calls + 1 =>
        /\ posts' = posts + 1
        /\ lookup' = lookup /\ modelInfo' = modelInfo
        /\ IF response'.kind = "response" /\ response'.json # JSONDecodeError
           THEN result' = [raised |-> "none", value |-> response'.json]
           ELSE result'.raised \in {"ConnectionError", "JSONDecodeError"}
                /\ result'.value = None]_vars

C8_Witness ==
    /\ result # None /\ result.raised = "none"
    /\ response.status_code = 503 /\ result.value = response.json

\* C9: the headers of a constructed client depend on use_auth_token alone: a string
\* gives authorization "Bearer <string>"; True with a stored token gives
\* "Bearer <stored token>"; False or absent gives no header, and in that case the
\* credential store is never queried.
C9_HeadersFromAuthToken ==
    args # None =>
        /\ (pc = "ready" /\ AuthArg.t = "str") =>
              self.headers = [authorization |-> "Bearer " \o AuthArg.s]
        /\ (pc = "ready" /\ AuthArg = Bool(TRUE)) =>
              hfToken # None /\ self.headers = [authorization |-> "Bearer " \o hfToken.s]
        /\ AuthArg \in {Bool(FALSE), None} =>
              /\ tokenQueries = 0
              /\ pc = "ready" => self.headers = <<>>

C9_Witness ==
    /\ pc = "ready" /\ args.use_auth_token = Omitted
    /\ hfToken # None /\ self.headers = <<>> /\ tokenQueries = 0

\* C10: whatever use_auth_token is, the lookup made during construction is given no
\* token, even when a credential was resolved into the headers.
C10_LookupUnauthenticated ==
    lookup # None => lookup.token = None

C10_Witness ==
    /\ lookup # None /\ pc = "ready"
    /\ self.headers = [authorization |-> "Bearer hf_stored"]

====
